---- MODULE Spec2Model ----
(***************************************************************************)
(* sentinel-rs: a log monitor.  A tail task pulls lines from a log file    *)
(* and hands each to LogParser::process_line, which counts it, classifies  *)
(* it (serde JSON fields first, RegexSet second), records alerts in the    *)
(* shared AppState and, behind a 10 s cooldown, spawns a detached webhook  *)
(* task.  The main thread runs the dashboard loop over the same AppState.  *)
(*                                                                         *)
(* Strings are sequences of pieces: a level or a rule name is spelled      *)
(* character by character (to_lowercase and contains are computed on it),  *)
(* other text is one opaque piece, and format! is concatenation.           *)
(* Option<T> is a sequence of length 0 (None) or 1 (Some).                 *)
(***************************************************************************)
EXTENDS Integers, Sequences, FiniteSets, TLC

\* ------------------------------------------------------------------ bounds
MaxLines == 3
MaxTime == 11
NumCallers == 2

\* --------------------------------------------------------------- constants
CooldownSecs == 10

\* ----------------------------------------------------------------- options
None == <<>>
Some(x) == <<x>>
IsSome(o) == Len(o) = 1
Unwrap(o) == o[1]
\* Option::or
OrElse(a, b) == IF IsSome(a) THEN a ELSE b
\* Option::unwrap_or
UnwrapOr(o, d) == IF IsSome(o) THEN o[1] ELSE d

\* ----------------------------------------------------------------- strings
Upper == <<"A","B","C","D","E","F","G","H","I","J","K","L","M",
           "N","O","P","Q","R","S","T","U","V","W","X","Y","Z">>
Lower == <<"a","b","c","d","e","f","g","h","i","j","k","l","m",
           "n","o","p","q","r","s","t","u","v","w","x","y","z">>

ToLowerChar(c) ==
    IF \E i \in 1..Len(Upper) : Upper[i] = c
    THEN Lower[CHOOSE i \in 1..Len(Upper) : Upper[i] = c]
    ELSE c

\* str::to_lowercase
ToLowercase(s) == [i \in 1..Len(s) |-> ToLowerChar(s[i])]

\* str::contains
Contains(s, sub) ==
    \E i \in 0..(Len(s) - Len(sub)) : SubSeq(s, i + 1, i + Len(sub)) = sub

S_error == <<"e","r","r","o","r">>
S_panic == <<"p","a","n","i","c">>
S_fatal == <<"f","a","t","a","l">>

\* format!("JSON: {}", msg)
FormatJson(msg) == <<"JSON: ">> \o msg

\* ------------------------------------------------------------------- rules
\* LogRule {name, pattern, threshold}
Rule(n, p, t) == [name |-> n, pattern |-> p, threshold |-> t]

\* AppConfig::default().rules
RulesDefault ==
    << Rule(<<"E","r","r","o","r">>, "(?i)error", 1),
       Rule(<<"P","a","n","i","c">>, "(?i)panic", 1) >>

\* a config.yaml whose first rule is not error-named and whose second has
\* a threshold above 1
RulesInfoFirst ==
    << Rule(<<"I","n","f","o">>, "(?i)info", 1),
       Rule(<<"T","e","s","t","E","r","r","o","r">>, "(?i)error", 3) >>

RulesEmpty == << >>

\* a config.yaml with a pattern the regex crate rejects
RulesInvalid == << Rule(<<"B","a","d">>, "[unclosed", 1) >>

RuleLists == {RulesDefault, RulesInfoFirst, RulesEmpty, RulesInvalid}

\* faulty variant: a pattern that does not compile is skipped
RegexSetNewLenient(rs) == TRUE

\* RegexSet::new(&patterns) is Ok
ValidPattern(p) == p # "[unclosed"
RegexSetNewOk(rs) == \A i \in 1..Len(rs) : ValidPattern(rs[i].pattern)

WebhookUrls == {None, Some("http://hook")}

\* ------------------------------------------------------------------- lines
\* What serde_json::from_str::<PartialLog> returns for a line.
JsonErr == [ok |-> FALSE, level |-> None, severity |-> None,
            msg |-> None, message |-> None]
JsonOk(l, s, m, mm) == [ok |-> TRUE, level |-> l, severity |-> s,
                        msg |-> m, message |-> mm]

\* A line of the log: its text, its first non-whitespace character, what
\* serde_json makes of it, and the patterns the regex crate finds in it.
Line(t, f, j, ms) == [text |-> <<t>>, first |-> f, json |-> j, matched |-> ms]

\* the line the simulator of main.rs writes
L_healthy == Line("[INFO] System healthy 1", "[", JsonErr, {"(?i)info"})
L_disk == Line("ERROR: disk full", "E", JsonErr, {"(?i)error"})
L_inforate == Line("[INFO] error rate normal", "[", JsonErr,
                   {"(?i)info", "(?i)error"})
L_kernel == Line("kernel panic at main.rs:500", "k", JsonErr, {"(?i)panic"})
\* {"level": "error", "msg": "db down"}
J_db == Line("{\"level\": \"error\", \"msg\": \"db down\"}", "{",
             JsonOk(Some(S_error), None, Some(<<"db down">>), None),
             {"(?i)error"})
\*   {"severity":"FATAL","message":"oom","msg":"short"}   (leading blanks)
J_fatal == Line("  {\"severity\":\"FATAL\",\"message\":\"oom\",\"msg\":\"short\"}", "{",
                JsonOk(None, Some(<<"F","A","T","A","L">>),
                       Some(<<"short">>), Some(<<"oom">>)),
                {})
\* {"level":"Panic"}
J_panic == Line("{\"level\":\"Panic\"}", "{",
                JsonOk(Some(<<"P","a","n","i","c">>), None, None, None),
                {"(?i)panic"})
\* {"level":"info","severity":"error","msg":"cache"}
J_info == Line("{\"level\":\"info\",\"severity\":\"error\",\"msg\":\"cache\"}", "{",
               JsonOk(Some(<<"i","n","f","o">>), Some(S_error),
                      Some(<<"cache">>), None),
               {"(?i)info", "(?i)error"})
\* {"level": "error", "msg":          (truncated: serde_json reports EOF)
J_broken == Line("{\"level\": \"error\", \"msg\": ", "{", JsonErr, {"(?i)error"})

Lines == {L_healthy, L_disk, L_inforate, L_kernel,
          J_db, J_fatal, J_panic, J_info, J_broken}

NoLine == Line("", "", JsonErr, {})

\* ---------------------------------------------------------- classification
\* line.trim_start().starts_with('{')
StartsWithBrace(l) == l.first = "{"

\* json.level.as_deref().or(json.severity.as_deref())
LevelStr(j) == OrElse(j.level, j.severity)

IsSevereLevel(s) == s = S_error \/ s = S_panic \/ s = S_fatal

\* level_str.map(|s| ...).unwrap_or(false)
IsError(j) ==
    IF IsSome(LevelStr(j)) THEN IsSevereLevel(ToLowercase(Unwrap(LevelStr(j))))
    ELSE FALSE

\* the JSON branch is taken to its early return
JsonAlert(l) == StartsWithBrace(l) /\ l.json.ok /\ IsError(l.json)

\* faulty variant: msg preferred to message
JsonMsgPrefersMsg(l) == UnwrapOr(OrElse(l.json.msg, l.json.message), l.text)

\* json.message.as_deref().or(json.msg.as_deref()).unwrap_or(line)
JsonMsg(l) == UnwrapOr(OrElse(l.json.message, l.json.msg), l.text)

\* regex_set.matches(line): the indices of the patterns that match
RegexMatches(rs, l) == {i \in 1..Len(rs) : rs[i].pattern \in l.matched}

Min(S) == CHOOSE x \in S : \A y \in S : x <= y

Max(S) == CHOOSE x \in S : \A y \in S : x >= y

\* faulty variant: the last match in place of the first
LastMatch(rs, l) == Max(RegexMatches(rs, l))

\* matches[0]
FirstMatch(rs, l) == Min(RegexMatches(rs, l))

\* faulty variant: the name of the matched rule is not looked at
SevereNameIgnored(n) == TRUE

\* rule_name.to_lowercase().contains("error") || ...contains("panic")
SevereName(n) ==
    Contains(ToLowercase(n), S_error) \/ Contains(ToLowercase(n), S_panic)

\* faulty variant: a first occurrence counts only under a threshold of 1
RegexAlertOverThreshold(rs, l) ==
    /\ RegexMatches(rs, l) # {}
    /\ SevereName(rs[FirstMatch(rs, l)].name)
    /\ rs[FirstMatch(rs, l)].threshold <= 1

\* the RegexSet branch reaches record_error
RegexAlert(rs, l) ==
    /\ RegexMatches(rs, l) # {}
    /\ SevereName(rs[FirstMatch(rs, l)].name)

\* faulty variant: a line that fails to parse as JSON returns early
AlertPathParseErrorReturns(rs, l) ==
    IF StartsWithBrace(l) /\ ~l.json.ok THEN "none"
    ELSE IF StartsWithBrace(l) /\ l.json.ok /\ IsError(l.json) THEN "json"
    ELSE IF RegexAlert(rs, l) THEN "regex"
    ELSE "none"

\* faulty variant: every line that parses as JSON returns early
AlertPathNoFallthrough(rs, l) ==
    IF StartsWithBrace(l) /\ l.json.ok
    THEN (IF IsError(l.json) THEN "json" ELSE "none")
    ELSE IF RegexAlert(rs, l) THEN "regex"
    ELSE "none"

\* which record_error call of process_line the line reaches, if any
AlertPath(rs, l) ==
    IF JsonAlert(l) THEN "json"
    ELSE IF RegexAlert(rs, l) THEN "regex"
    ELSE "none"

\* the argument of record_error in each arm
ArmMessage(arm, l) ==
    IF arm = "json" THEN FormatJson(JsonMsg(l)) ELSE l.text

\* the argument of the record_error call the line reaches
AlertMessage(rs, l) == ArmMessage(AlertPath(rs, l), l)

\* ------------------------------------------------------------------- state
VARIABLES
    rules,              \* AppConfig.rules, then LogParser {regex_set, rule_names}
    webhook_url,        \* AppState.webhook_url
    total_lines,        \* AppState.total_lines
    total_errors,       \* AppState.total_errors
    last_error,         \* AppState.last_error (the value behind the mutex)
    last_error_lock,    \* who holds AppState.last_error's mutex
    last_webhook_sent,  \* AppState.last_webhook_sent (behind its mutex)
    webhook_lock,       \* who holds AppState.last_webhook_sent's mutex
    now,                \* the monotonic clock Instant::now() reads, in seconds
    main_pc,            \* where main() is
    tail_pc,            \* where the tail task (and process_line in it) is
    cur,                \* the line process_line was called with
    send,               \* what should_send_webhook returned to process_line
    branch,             \* the arm of process_line that is running: "json",
                        \* "regex", or "none"
    tasks,              \* the detached webhook tasks, in spawn order: the
                        \* time the gate stored when it let each through,
                        \* and what became of its send()
    entry,              \* history: AppState as it was when process_line was called
    completed,          \* history: how many process_line calls have returned
    latest,             \* history: the last delivered line that reached record_error
    gate_calls,         \* history: the should_send_webhook calls of this
                        \* process_line call so far
    log_lines,          \* the lines the log file of this run can hold
    ui_pc,              \* where run_app's loop is, "returned" after it
    frame,              \* the values the current terminal.draw call has loaded
    caller_pc,          \* where each direct caller of should_send_webhook is
    caller_seen,        \* the clock value its instant.elapsed() used
    caller_send,        \* the result its match produced
    granted             \* history: the calls that returned true, in order

vars == << rules, webhook_url, total_lines, total_errors, last_error,
           last_error_lock, last_webhook_sent, webhook_lock, now, main_pc,
           tail_pc, cur, send, branch, tasks, entry, completed, latest,
           gate_calls, log_lines, ui_pc, frame, caller_pc,
           caller_seen, caller_send, granted >>

config == << rules, webhook_url, log_lines >>
hist == << entry, completed, latest, gate_calls >>
dash == << ui_pc, frame >>
callers == << caller_pc, caller_seen, caller_send, granted >>

\* the threads that call should_send_webhook directly
Callers == 1..NumCallers

NoFrame == [total_lines |-> 0, total_errors |-> 0, last_err |-> None]

\* who holds a mutex: nobody, or one thread
Free == << >>
HeldBy(who) == << who >>

Snapshot ==
    [total_lines |-> total_lines, total_errors |-> total_errors,
     last_error |-> last_error, last_webhook_sent |-> last_webhook_sent,
     tasks |-> Len(tasks)]

NoEntry ==
    [total_lines |-> 0, total_errors |-> 0, last_error |-> None,
     last_webhook_sent |-> None, tasks |-> 0]

\* main(): load_config, AppState::new(config.webhook_url) have run
InitState(rule_lists, urls, lines) ==
    /\ rules \in rule_lists
    /\ webhook_url \in urls
    /\ total_lines = 0
    /\ total_errors = 0
    /\ last_error = None
    /\ last_error_lock = Free
    /\ last_webhook_sent = None
    /\ webhook_lock = Free
    /\ now = 0
    /\ main_pc = "new_parser"
    /\ tail_pc = "unspawned"
    /\ cur = NoLine
    /\ send = FALSE
    /\ branch = "none"
    /\ tasks = << >>
    /\ entry = NoEntry
    /\ completed = 0
    /\ latest = None
    /\ gate_calls = 0
    /\ log_lines = lines
    /\ ui_pc = "load_lines"
    /\ frame = NoFrame
    /\ caller_pc = [c \in Callers |-> "idle"]
    /\ caller_seen = [c \in Callers |-> 0]
    /\ caller_send = [c \in Callers |-> FALSE]
    /\ granted = << >>

\* any config.yaml, any log
Init == InitState(RuleLists, WebhookUrls, Lines)

\* ----------------------------------------------------------------- startup
\* LogParser::new(&config.rules): RegexSet::new(..).expect(..) panics in main
\* on an invalid pattern; otherwise main goes on to spawn the tail task and
\* to run the dashboard.
NewParser ==
    /\ main_pc = "new_parser"
    /\ IF RegexSetNewOk(rules)
       THEN main_pc' = "run_app" /\ tail_pc' = "tail_init"
       ELSE main_pc' = "panicked" /\ tail_pc' = tail_pc
    /\ UNCHANGED << config, total_lines, total_errors, last_error,
                    last_error_lock, last_webhook_sent, webhook_lock, now,
                    cur, send, branch, tasks, hist, callers, dash >>

\* main is inside run_app
InRunApp == main_pc = "run_app"

\* the runtime's tasks can run, the tail task and the webhook tasks alike:
\* the runtime polls them from their spawn through run_app and the cleanup
\* after it, and the runtime that main drops on its return still runs, on
\* its worker threads, every poll that is in progress or already taken up,
\* until the poll returns Pending: the tail through process_line and through
\* every next_line().await that is ready at once, a webhook task through
\* the return of its send().await
InProcess == main_pc \in {"run_app", "cleanup", "exited"}

\* --------------------------------------------------------------- tail task
\* MuxedLines::new().expect(..) and add_file(..).await.expect(..) succeed
TailInit ==
    /\ InProcess /\ tail_pc = "tail_init"
    /\ tail_pc' = "next_line"
    /\ UNCHANGED << config, total_lines, total_errors, last_error,
                    last_error_lock, last_webhook_sent, webhook_lock, now,
                    main_pc, cur, send, branch, tasks, hist, callers, dash >>

\* one of the two expect()s panics: the panic unwinds the spawned task only
TailInitFail ==
    /\ InProcess /\ tail_pc = "tail_init"
    /\ tail_pc' = "panicked"
    /\ UNCHANGED << config, total_lines, total_errors, last_error,
                    last_error_lock, last_webhook_sent, webhook_lock, now,
                    main_pc, cur, send, branch, tasks, hist, callers, dash >>

\* A second passes, wherever the threads are: while the tail task is
\* suspended in lines.next_line().await, while process_line waits in a
\* lock(), between instant.elapsed() and Instant::now().
Tick ==
    /\ now < MaxTime
    /\ now' = now + 1
    /\ UNCHANGED << config, total_lines, total_errors, last_error,
                    last_error_lock, last_webhook_sent, webhook_lock,
                    main_pc, tail_pc, cur, send, branch, tasks, hist, callers, dash >>

\* lines.next_line().await is Ok(Some(line)): process_line(line.line(), ..)
NextLine(l) ==
    /\ InProcess /\ tail_pc = "next_line"
    /\ completed < MaxLines
    /\ l \in log_lines
    /\ cur' = l
    /\ tail_pc' = "increment_lines"
    /\ entry' = Snapshot
    /\ latest' = IF AlertPath(rules, l) # "none" THEN Some(l) ELSE latest
    /\ UNCHANGED << config, total_lines, total_errors, last_error,
                    last_error_lock, last_webhook_sent, webhook_lock, now,
                    main_pc, send, branch, tasks, completed, gate_calls, callers, dash >>

\* lines.next_line().await is Ok(None): the while-let ends, the task returns
SourceEnd ==
    /\ InProcess /\ tail_pc = "next_line"
    /\ tail_pc' = "finished"
    /\ UNCHANGED << config, total_lines, total_errors, last_error,
                    last_error_lock, last_webhook_sent, webhook_lock, now,
                    main_pc, cur, send, branch, tasks, hist, callers, dash >>

\* lines.next_line().await is Err(_): the while-let ends the same way
SourceErr ==
    /\ InProcess /\ tail_pc = "next_line"
    /\ tail_pc' = "finished"
    /\ UNCHANGED << config, total_lines, total_errors, last_error,
                    last_error_lock, last_webhook_sent, webhook_lock, now,
                    main_pc, cur, send, branch, tasks, hist, callers, dash >>

\* main has returned and the tail task's poll returns Pending, in
\* add_file(..).await or in lines.next_line().await: the runtime drops the
\* task
TailDropped ==
    /\ main_pc = "exited" /\ tail_pc \in {"tail_init", "next_line"}
    /\ tail_pc' = "dropped"
    /\ UNCHANGED << config, total_lines, total_errors, last_error,
                    last_error_lock, last_webhook_sent, webhook_lock, now,
                    main_pc, cur, send, branch, tasks, hist, callers, dash >>

\* ------------------------------------------------------------ process_line
\* faulty variant: the increment is lost
LinesIncrementLost(n) == n

\* total_lines.fetch_add(1)
LinesAfterIncrement(n) == n + 1

\* state.increment_lines(); then the classification, which touches no
\* shared state, decides which arm runs and so whether a record_error
\* call follows
IncrementLines ==
    /\ InProcess /\ tail_pc = "increment_lines"
    /\ total_lines' = LinesAfterIncrement(total_lines)
    /\ branch' = AlertPath(rules, cur)
    /\ tail_pc' = IF AlertPath(rules, cur) = "none" THEN "return"
                  ELSE "record_error"
    /\ UNCHANGED << config, total_errors, last_error, last_error_lock,
                    last_webhook_sent, webhook_lock, now, main_pc, cur,
                    send, tasks, hist, callers, dash >>

\* faulty variant: the alert is counted twice
ErrorsCountedTwice(n) == n + 2

\* total_errors.fetch_add(1)
ErrorsAfterRecord(n) == n + 1

\* record_error: self.total_errors.fetch_add(1, Relaxed)
RecordErrorAdd ==
    /\ InProcess /\ tail_pc = "record_error"
    /\ total_errors' = ErrorsAfterRecord(total_errors)
    /\ tail_pc' = "last_error_lock"
    /\ UNCHANGED << config, total_lines, last_error, last_error_lock,
                    last_webhook_sent, webhook_lock, now, main_pc, cur,
                    send, branch, tasks, hist, callers, dash >>

\* faulty variant: lock() returns although the mutex is held
MutexNeverBlocks(holder) == TRUE

\* Mutex::lock returns once nobody holds the mutex
MutexFree(holder) == holder = Free

\* record_error: self.last_error.lock().unwrap()
LastErrorLock ==
    /\ InProcess /\ tail_pc = "last_error_lock"
    /\ MutexFree(last_error_lock)
    /\ last_error_lock' = HeldBy("tail")
    /\ tail_pc' = "last_error_write"
    /\ UNCHANGED << config, total_lines, total_errors, last_error,
                    last_webhook_sent, webhook_lock, now, main_pc, cur,
                    send, branch, tasks, hist, callers, dash >>

\* faulty variant: the first alert is kept
LastErrorKeepFirst(old, message) == IF IsSome(old) THEN old ELSE Some(message)

\* *last = Some(message)
LastErrorAfterRecord(old, message) == Some(message)

LastErrorWrite ==
    /\ InProcess /\ tail_pc = "last_error_write"
    /\ last_error' = LastErrorAfterRecord(last_error, ArmMessage(branch, cur))
    /\ tail_pc' = "last_error_unlock"
    /\ UNCHANGED << config, total_lines, total_errors, last_error_lock,
                    last_webhook_sent, webhook_lock, now, main_pc, cur,
                    send, branch, tasks, hist, callers, dash >>

\* faulty variant: the arm of the JSON branch has no `return`: a line a
\* severe rule matches goes on into the RegexSet arm
ArmExitFallsThrough(arm, rs, l) ==
    IF arm = "json" /\ RegexAlert(rs, l)
    THEN [pc |-> "record_error", arm |-> "regex"]
    ELSE [pc |-> "return", arm |-> arm]

\* where an arm that has recorded its alert goes when it is done: the JSON
\* arm to its `return`, the RegexSet arm to the end of the function
ArmExit(arm, rs, l) == [pc |-> "return", arm |-> arm]

\* faulty variant: the url is not looked at
WebhookAssumed(url) == TRUE

\* state.webhook_url.is_some()
WebhookConfigured(url) == IsSome(url)

\* faulty variant: the guard of record_error lives on into the gate
LastErrorUnlockKeepsGuard ==
    /\ InProcess /\ tail_pc = "last_error_unlock"
    /\ IF WebhookConfigured(webhook_url)
       THEN tail_pc' = "webhook_lock" /\ branch' = branch
       ELSE /\ tail_pc' = ArmExit(branch, rules, cur).pc
            /\ branch' = ArmExit(branch, rules, cur).arm
    /\ UNCHANGED << config, total_lines, total_errors, last_error,
                    last_error_lock, last_webhook_sent, webhook_lock, now,
                    main_pc, cur, send, tasks, hist, callers, dash >>

\* record_error returns and drops the guard; then
\* state.webhook_url.is_some() && ... short-circuits on None
LastErrorUnlock ==
    /\ InProcess /\ tail_pc = "last_error_unlock"
    /\ last_error_lock' = Free
    /\ IF WebhookConfigured(webhook_url)
       THEN tail_pc' = "webhook_lock" /\ branch' = branch
       ELSE /\ tail_pc' = ArmExit(branch, rules, cur).pc
            /\ branch' = ArmExit(branch, rules, cur).arm
    /\ UNCHANGED << config, total_lines, total_errors, last_error,
                    last_webhook_sent, webhook_lock, now, main_pc, cur,
                    send, tasks, hist, callers, dash >>

\* should_send_webhook: self.last_webhook_sent.lock().unwrap()
WebhookLock ==
    /\ InProcess /\ tail_pc = "webhook_lock"
    /\ MutexFree(webhook_lock)
    /\ webhook_lock' = HeldBy("tail")
    /\ tail_pc' = "should_send"
    /\ gate_calls' = gate_calls + 1
    /\ UNCHANGED << config, total_lines, total_errors, last_error,
                    last_error_lock, last_webhook_sent, now, main_pc, cur,
                    send, branch, tasks, entry, completed, latest,
                    callers, dash >>

\* faulty variant: >= in place of >
CooldownElapsedInclusive(instant, t) == t - instant >= CooldownSecs

\* instant.elapsed() > Duration::from_secs(10)
CooldownElapsed(instant, t) == t - instant > CooldownSecs

\* the value of the match in should_send_webhook
ShouldSend(last_sent, t) ==
    IF IsSome(last_sent) THEN CooldownElapsed(Unwrap(last_sent), t) ELSE TRUE

\* should_send_webhook: the match on *last_sent decides the result
ShouldSendWebhook ==
    /\ InProcess /\ tail_pc = "should_send"
    /\ send' = ShouldSend(last_webhook_sent, now)
    /\ tail_pc' = IF ShouldSend(last_webhook_sent, now) THEN "store_sent"
                  ELSE "webhook_unlock"
    /\ UNCHANGED << config, total_lines, total_errors, last_error,
                    last_error_lock, last_webhook_sent, webhook_lock, now,
                    main_pc, cur, branch, tasks, entry, completed, latest,
                    gate_calls, callers, dash >>

\* *last_sent = Some(Instant::now()), in either arm that returns true
StoreSent ==
    /\ InProcess /\ tail_pc = "store_sent"
    /\ last_webhook_sent' = Some(now)
    /\ tail_pc' = "webhook_unlock"
    /\ UNCHANGED << config, total_lines, total_errors, last_error,
                    last_error_lock, webhook_lock, now, main_pc, cur,
                    send, branch, tasks, entry, completed, latest,
                    gate_calls, callers, dash >>

\* should_send_webhook returns and drops the guard
WebhookUnlock ==
    /\ InProcess /\ tail_pc = "webhook_unlock"
    /\ webhook_lock' = Free
    /\ IF send
       THEN tail_pc' = "spawn" /\ branch' = branch
       ELSE /\ tail_pc' = ArmExit(branch, rules, cur).pc
            /\ branch' = ArmExit(branch, rules, cur).arm
    /\ UNCHANGED << config, total_lines, total_errors, last_error,
                    last_error_lock, last_webhook_sent, now, main_pc, cur,
                    send, tasks, entry, completed, latest, gate_calls,
                    callers, dash >>

\* tokio::spawn(async move { .. client.post(&url).json(&payload).send().await })
\* (the task is spawned on the runtime whether or not main has returned; a
\* task the runtime drops at a Pending send() stays "sending")
Spawn ==
    /\ InProcess /\ tail_pc = "spawn"
    /\ tasks' = Append(tasks, [at |-> Unwrap(last_webhook_sent),
                               st |-> "sending"])
    /\ tail_pc' = ArmExit(branch, rules, cur).pc
    /\ branch' = ArmExit(branch, rules, cur).arm
    /\ UNCHANGED << config, total_lines, total_errors, last_error,
                    last_error_lock, last_webhook_sent, webhook_lock, now,
                    main_pc, cur, send, hist, callers, dash >>

\* faulty variant: process_line waits for the webhook tasks before it returns
ReturnAwaitsDispatch ==
    /\ InProcess /\ tail_pc = "return"
    /\ \A i \in 1..Len(tasks) : tasks[i].st # "sending"
    /\ tail_pc' = "next_line"
    /\ cur' = NoLine
    /\ send' = FALSE
    /\ branch' = "none"
    /\ entry' = NoEntry
    /\ completed' = completed + 1
    /\ gate_calls' = 0
    /\ UNCHANGED << config, total_lines, total_errors, last_error,
                    last_error_lock, last_webhook_sent, webhook_lock, now,
                    main_pc, tasks, latest, callers, dash >>

\* process_line returns to the while-let of the tail task
Return ==
    /\ InProcess /\ tail_pc = "return"
    /\ tail_pc' = "next_line"
    /\ cur' = NoLine
    /\ send' = FALSE
    /\ branch' = "none"
    /\ entry' = NoEntry
    /\ completed' = completed + 1
    /\ gate_calls' = 0
    /\ UNCHANGED << config, total_lines, total_errors, last_error,
                    last_error_lock, last_webhook_sent, webhook_lock, now,
                    main_pc, tasks, latest, callers, dash >>

\* ----------------------------------------------------------- webhook tasks
\* send().await is Ok(_); `let _ =` drops it and the task ends
TaskOk(i) ==
    /\ InProcess /\ i \in 1..Len(tasks) /\ tasks[i].st = "sending"
    /\ tasks' = [tasks EXCEPT ![i].st = "delivered"]
    /\ UNCHANGED << config, total_lines, total_errors, last_error,
                    last_error_lock, last_webhook_sent, webhook_lock, now,
                    main_pc, tail_pc, cur, send, branch, hist, callers, dash >>

\* faulty variant: a failed send gives the cooldown back
TaskErrGivesBackCooldown(i) ==
    /\ InProcess /\ i \in 1..Len(tasks) /\ tasks[i].st = "sending"
    /\ tasks' = [tasks EXCEPT ![i].st = "failed"]
    /\ last_webhook_sent' = None
    /\ UNCHANGED << config, total_lines, total_errors, last_error,
                    last_error_lock, webhook_lock, now,
                    main_pc, tail_pc, cur, send, branch, hist, callers, dash >>

\* send().await is Err(_); `let _ =` drops it and the task ends
TaskErr(i) ==
    /\ InProcess /\ i \in 1..Len(tasks) /\ tasks[i].st = "sending"
    /\ tasks' = [tasks EXCEPT ![i].st = "failed"]
    /\ UNCHANGED << config, total_lines, total_errors, last_error,
                    last_error_lock, last_webhook_sent, webhook_lock, now,
                    main_pc, tail_pc, cur, send, branch, hist, callers, dash >>

\* ----------------------------------------------------------- specification
ProcessLine ==
    \/ IncrementLines
    \/ RecordErrorAdd
    \/ LastErrorLock
    \/ LastErrorWrite
    \/ LastErrorUnlock
    \/ WebhookLock
    \/ ShouldSendWebhook
    \/ StoreSent
    \/ WebhookUnlock
    \/ Spawn
    \/ Return

Next ==
    \/ NewParser
    \/ TailInit
    \/ TailInitFail
    \/ Tick
    \/ \E l \in Lines : NextLine(l)
    \/ SourceEnd
    \/ SourceErr
    \/ ProcessLine
    \/ \E i \in 1..MaxLines : TaskOk(i)
    \/ \E i \in 1..MaxLines : TaskErr(i)

Spec == Init /\ [][Next]_vars

\* --------------------------------------------------------------- dashboard
\* run_app's loop.  The closure given to terminal.draw loads the counters
\* one after the other and then locks last_error; the guard lives to the
\* end of the closure.  (The sparkline history above these loads is local
\* to the UI thread and only reads total_errors; it is left out.)

\* state.total_lines.load(Relaxed)
DashLoadLines ==
    /\ InRunApp /\ ui_pc = "load_lines"
    /\ frame' = [frame EXCEPT !.total_lines = total_lines]
    /\ ui_pc' = "load_errors"
    /\ UNCHANGED << config, total_lines, total_errors, last_error,
                    last_error_lock, last_webhook_sent, webhook_lock, now,
                    main_pc, tail_pc, cur, send, branch, tasks, hist, callers >>

\* faulty variant: the alert count is loaded from total_lines
DashLoadErrorsFromLines ==
    /\ InRunApp /\ ui_pc = "load_errors"
    /\ frame' = [frame EXCEPT !.total_errors = total_lines]
    /\ ui_pc' = "last_error_lock"
    /\ UNCHANGED << config, total_lines, total_errors, last_error,
                    last_error_lock, last_webhook_sent, webhook_lock, now,
                    main_pc, tail_pc, cur, send, branch, tasks, hist,
                    callers >>

\* state.total_errors.load(Relaxed)
DashLoadErrors ==
    /\ InRunApp /\ ui_pc = "load_errors"
    /\ frame' = [frame EXCEPT !.total_errors = total_errors]
    /\ ui_pc' = "last_error_lock"
    /\ UNCHANGED << config, total_lines, total_errors, last_error,
                    last_error_lock, last_webhook_sent, webhook_lock, now,
                    main_pc, tail_pc, cur, send, branch, tasks, hist, callers >>

\* state.last_error.lock().unwrap()
DashLock ==
    /\ InRunApp /\ ui_pc = "last_error_lock"
    /\ MutexFree(last_error_lock)
    /\ last_error_lock' = HeldBy("dashboard")
    /\ ui_pc' = "render_alert"
    /\ UNCHANGED << config, total_lines, total_errors, last_error,
                    last_webhook_sent, webhook_lock, now, main_pc, tail_pc,
                    cur, send, branch, tasks, hist, frame, callers >>

\* last_err.clone() ... f.render_widget(alert_widget, ..), under the guard
DashRenderAlert ==
    /\ InRunApp /\ ui_pc = "render_alert"
    /\ frame' = [frame EXCEPT !.last_err = last_error]
    /\ ui_pc' = "last_error_unlock"
    /\ UNCHANGED << config, total_lines, total_errors, last_error,
                    last_error_lock, last_webhook_sent, webhook_lock, now,
                    main_pc, tail_pc, cur, send, branch, tasks, hist, callers >>

\* faulty variant: the guard outlives the closure
DashUnlockKeepsGuard ==
    /\ InRunApp /\ ui_pc = "last_error_unlock"
    /\ ui_pc' = "poll"
    /\ UNCHANGED << config, total_lines, total_errors, last_error,
                    last_error_lock, last_webhook_sent, webhook_lock, now,
                    main_pc, tail_pc, cur, send, branch, tasks, hist, frame,
                    callers >>

\* the closure ends: the guard is dropped and the frame is on the screen
DashUnlock ==
    /\ InRunApp /\ ui_pc = "last_error_unlock"
    /\ last_error_lock' = Free
    /\ ui_pc' = "poll"
    /\ UNCHANGED << config, total_lines, total_errors, last_error,
                    last_webhook_sent, webhook_lock, now, main_pc, tail_pc,
                    cur, send, branch, tasks, hist, frame, callers >>

\* event::poll(100 ms) times out, or the key is not 'q': next iteration
DashPoll ==
    /\ InRunApp /\ ui_pc = "poll"
    /\ ui_pc' = "load_lines"
    /\ frame' = NoFrame
    /\ UNCHANGED << config, total_lines, total_errors, last_error,
                    last_error_lock, last_webhook_sent, webhook_lock, now,
                    main_pc, tail_pc, cur, send, branch, tasks, hist, callers >>

\* the key is 'q': run_app returns Ok(()) and main goes on to its cleanup
Quit ==
    /\ InRunApp /\ ui_pc = "poll"
    /\ main_pc' = "cleanup"
    /\ ui_pc' = "returned"
    /\ frame' = NoFrame
    /\ UNCHANGED << config, total_lines, total_errors, last_error,
                    last_error_lock, last_webhook_sent, webhook_lock, now,
                    tail_pc, cur, send, branch, tasks, hist, callers >>

\* terminal.draw(..)? is Err, before the closure has run or after it has
\* returned: run_app returns the error
DrawErr ==
    /\ InRunApp /\ ui_pc \in {"load_lines", "poll"}
    /\ main_pc' = "cleanup"
    /\ ui_pc' = "returned"
    /\ frame' = NoFrame
    /\ UNCHANGED << config, total_lines, total_errors, last_error,
                    last_error_lock, last_webhook_sent, webhook_lock, now,
                    tail_pc, cur, send, branch, tasks, hist, callers >>

\* event::poll(..)? is Err: run_app returns the error
PollErr ==
    /\ InRunApp /\ ui_pc = "poll"
    /\ main_pc' = "cleanup"
    /\ ui_pc' = "returned"
    /\ frame' = NoFrame
    /\ UNCHANGED << config, total_lines, total_errors, last_error,
                    last_error_lock, last_webhook_sent, webhook_lock, now,
                    tail_pc, cur, send, branch, tasks, hist, callers >>

\* event::read()? is Err: run_app returns the error
ReadErr ==
    /\ InRunApp /\ ui_pc = "poll"
    /\ main_pc' = "cleanup"
    /\ ui_pc' = "returned"
    /\ frame' = NoFrame
    /\ UNCHANGED << config, total_lines, total_errors, last_error,
                    last_error_lock, last_webhook_sent, webhook_lock, now,
                    tail_pc, cur, send, branch, tasks, hist, callers >>

\* disable_raw_mode, execute!, show_cursor are done, or one of their `?`
\* returned: main returns and the runtime is dropped with whatever tasks
\* it still holds
MainReturn ==
    /\ main_pc = "cleanup"
    /\ main_pc' = "exited"
    /\ UNCHANGED << config, total_lines, total_errors, last_error,
                    last_error_lock, last_webhook_sent, webhook_lock, now,
                    tail_pc, cur, send, branch, tasks, hist, dash, callers >>

Dashboard ==
    \/ DashLoadLines
    \/ DashLoadErrors
    \/ DashLock
    \/ DashRenderAlert
    \/ DashUnlock
    \/ DashPoll
    \/ Quit
    \/ DrawErr
    \/ PollErr
    \/ ReadErr
    \/ MainReturn

\* the lines of the log in the runs with the dashboard
SystemLines == {L_healthy, J_db}

\* the default rules and a webhook, the pipeline and the dashboard together
InitSystem == InitState({RulesDefault}, {Some("http://hook")}, SystemLines)

NextSystem == Next \/ Dashboard \/ TailDropped

SpecSystem == InitSystem /\ [][NextSystem]_vars

\* the same system with the one fairness the code gives the pipeline:
\* process_line is a synchronous fn (parser.rs:35), so once the tail task's
\* thread is inside it, the thread goes on to its next statement whenever
\* that statement can run (a lock() goes on when the mutex is free), also
\* after main has returned (the poll in progress is not interrupted).
\* Nothing is assumed of the webhook tasks, of the line source, of the
\* dashboard or of main: a send() may stay pending forever.
SpecSystemFair ==
    InitSystem /\ [][NextSystem]_vars /\ WF_vars(ProcessLine)

\* ------------------------------------- should_send_webhook, called directly
\* Threads that call AppState::should_send_webhook on one shared AppState,
\* as the tail task does.

\* a thread calls should_send_webhook and waits in lock()
CallerCall(c) ==
    /\ caller_pc[c] = "idle"
    /\ caller_pc' = [caller_pc EXCEPT ![c] = "lock"]
    /\ UNCHANGED << config, total_lines, total_errors, last_error,
                    last_error_lock, last_webhook_sent, webhook_lock, now,
                    main_pc, tail_pc, cur, send, branch, tasks, hist, dash,
                    caller_seen, caller_send, granted >>

\* self.last_webhook_sent.lock().unwrap()
CallerLock(c) ==
    /\ caller_pc[c] = "lock"
    /\ MutexFree(webhook_lock)
    /\ webhook_lock' = HeldBy(c)
    /\ caller_pc' = [caller_pc EXCEPT ![c] = "match"]
    /\ UNCHANGED << config, total_lines, total_errors, last_error,
                    last_error_lock, last_webhook_sent, now, main_pc,
                    tail_pc, cur, send, branch, tasks, hist, dash, caller_seen,
                    caller_send, granted >>

\* the match on *last_sent, with instant.elapsed() read now
CallerMatch(c) ==
    /\ caller_pc[c] = "match"
    /\ caller_seen' = [caller_seen EXCEPT ![c] = now]
    /\ caller_send' = [caller_send EXCEPT ![c] = ShouldSend(last_webhook_sent, now)]
    /\ caller_pc' = [caller_pc EXCEPT ![c] =
                        IF ShouldSend(last_webhook_sent, now) THEN "store"
                        ELSE "unlock"]
    /\ UNCHANGED << config, total_lines, total_errors, last_error,
                    last_error_lock, last_webhook_sent, webhook_lock, now,
                    main_pc, tail_pc, cur, send, branch, tasks, hist, dash, granted >>

\* *last_sent = Some(Instant::now())
CallerStore(c) ==
    /\ caller_pc[c] = "store"
    /\ last_webhook_sent' = Some(now)
    /\ granted' = Append(granted, [by |-> c, seen |-> caller_seen[c],
                                   last |-> last_webhook_sent, at |-> now])
    /\ caller_pc' = [caller_pc EXCEPT ![c] = "unlock"]
    /\ UNCHANGED << config, total_lines, total_errors, last_error,
                    last_error_lock, webhook_lock, now, main_pc, tail_pc,
                    cur, send, branch, tasks, hist, dash, caller_seen, caller_send >>

\* the call returns caller_send[c] and drops the guard
CallerReturn(c) ==
    /\ caller_pc[c] = "unlock"
    /\ webhook_lock' = Free
    /\ caller_pc' = [caller_pc EXCEPT ![c] = "idle"]
    /\ caller_seen' = [caller_seen EXCEPT ![c] = 0]
    /\ caller_send' = [caller_send EXCEPT ![c] = FALSE]
    /\ UNCHANGED << config, total_lines, total_errors, last_error,
                    last_error_lock, last_webhook_sent, now, main_pc,
                    tail_pc, cur, send, branch, tasks, hist, dash, granted >>

InitGate == InitState({RulesDefault}, {Some("http://hook")}, {})

NextGate ==
    \/ \E c \in Callers : CallerCall(c)
    \/ \E c \in Callers : CallerLock(c)
    \/ \E c \in Callers : CallerMatch(c)
    \/ \E c \in Callers : CallerStore(c)
    \/ \E c \in Callers : CallerReturn(c)
    \/ Tick

SpecGate == InitGate /\ [][NextGate]_vars

\* ------------------------------------------------------------------ claims
\* The vocabulary of the claims, stated on the line and the rule list
\* without the operators process_line is modelled with.

\* process_line is about to return to the tail loop
AtReturn == tail_pc = "return"

\* the line parses as a structured record
Structured(l) == l.first = "{" /\ l.json.ok

\* the level field, else the severity field
EffectiveLevel(l) == IF l.json.level # None THEN l.json.level ELSE l.json.severity

\* a structured record whose effective level is error, panic or fatal
RecognizedSeverity(l) ==
    /\ Structured(l)
    /\ EffectiveLevel(l) # None
    /\ ToLowercase(EffectiveLevel(l)[1]) \in {S_error, S_panic, S_fatal}

\* the message field, else the msg field, else the raw line
PreferredMessage(l) ==
    IF l.json.message # None THEN l.json.message[1]
    ELSE IF l.json.msg # None THEN l.json.msg[1]
    ELSE l.text

\* the rules whose pattern matches the line
Matching(l) == {i \in DOMAIN rules : rules[i].pattern \in l.matched}

\* rule i is the lowest-index rule matching the line
LowestMatch(l, i) == i \in Matching(l) /\ \A j \in Matching(l) : i <= j

\* the rule's name contains "error" or "panic", case-insensitively
ErrorNamed(i) ==
    \/ Contains(ToLowercase(rules[i].name), S_error)
    \/ Contains(ToLowercase(rules[i].name), S_panic)

\* the call recorded exactly one alert with this message
AlertRecorded(message) ==
    /\ total_errors = entry.total_errors + 1
    /\ last_error = Some(message)

\* the call recorded no alert
NoAlertRecorded ==
    /\ total_errors = entry.total_errors
    /\ last_error = entry.last_error

\* C1: one call of process_line adds exactly 1 to total_lines whatever the
\* line is, and total_lines is never below the number of completed calls.
C1_LinesPlusOne ==
    /\ AtReturn => total_lines = entry.total_lines + 1
    /\ total_lines >= completed

\* a malformed JSON line has been processed as the third line
C1_Witness ==
    /\ AtReturn /\ cur = J_broken
    /\ completed = 2 /\ total_lines = 3

\* the step is the match of should_send_webhook, which reads the clock
GateDecides == tail_pc = "should_send" /\ tail_pc' # "should_send"

\* no task was spawned before this call, or the time stored for the last
\* one is more than 10 s old on the clock
DispatchDue ==
    \/ entry.tasks = 0
    \/ now - tasks[entry.tasks].at > CooldownSecs

\* C2: with a webhook configured, the gate lets an alert through exactly
\* when no dispatch was spawned before or more than 10 s have passed, when
\* the gate reads the clock, since the time stored for the last alert that
\* was dispatched; the call then stores a time read from the clock and
\* spawns exactly one dispatch, for that stored time, more than 10 s after
\* the time stored for the last one; a denied alert spawns nothing and
\* leaves the last-sent time alone.
C2_CooldownGate ==
    [][/\ GateDecides => (send' <=> DispatchDue)
       /\ (AtReturn /\ IsSome(webhook_url)
               /\ total_errors > entry.total_errors) =>
               IF send
               THEN /\ Len(tasks) = entry.tasks + 1
                    /\ last_webhook_sent = Some(tasks[Len(tasks)].at)
                    /\ tasks[Len(tasks)].at <= now
                    /\ entry.tasks > 0 =>
                           tasks[Len(tasks)].at - tasks[entry.tasks].at
                               > CooldownSecs
               ELSE /\ Len(tasks) = entry.tasks
                    /\ last_webhook_sent = entry.last_webhook_sent]_vars

\* three alerts: dispatched at 0, denied exactly 10 s later, dispatched
\* again at 11 s
C2_Witness ==
    /\ AtReturn /\ total_errors = 3 /\ completed = 2
    /\ Len(tasks) = 2 /\ tasks[1].at = 0 /\ tasks[2].at = 11

\* C3: however many threads call should_send_webhook and however they
\* interleave, the check of the last-sent time and its update are one
\* step: every call that returns true found no time recorded or one more
\* than 10 s old, the time it found is the one the previous granted call
\* recorded, and so any two recorded times are more than 10 s apart.
C3_AtomicGate ==
    /\ \A k \in 1..Len(granted) :
          /\ granted[k].last = (IF k = 1 THEN None ELSE Some(granted[k - 1].at))
          /\ k > 1 => granted[k].seen - granted[k - 1].at > CooldownSecs
    /\ \A j, k \in 1..Len(granted) :
          j < k => granted[k].at - granted[j].at > CooldownSecs

\* two threads were granted in turn, and the first now waits in lock()
\* while the second is still inside the critical section
C3_Witness ==
    /\ Len(granted) = 2
    /\ granted[1].by = 1 /\ granted[2].by = 2
    /\ caller_pc[1] = "lock" /\ caller_pc[2] = "unlock"

\* C4 as stated: a structured line with a recognized severity is recorded
\* as "structured: " followed by the message, else msg, else the raw line.
C4_StructuredPrefix ==
    (AtReturn /\ RecognizedSeverity(cur)) =>
        AlertRecorded(<<"structured: ">> \o PreferredMessage(cur))

\* C4, amended: a structured line whose effective level (level, else
\* severity), lower-cased, is error, panic or fatal adds 1 to total_errors
\* and sets last_error to "JSON: " followed by the message field, else the
\* msg field, else the raw line.
C4_JsonPrefix ==
    (AtReturn /\ RecognizedSeverity(cur)) =>
        AlertRecorded(<<"JSON: ">> \o PreferredMessage(cur))

\* severity FATAL (no level), message preferred to msg, as a second alert
C4_Witness ==
    /\ AtReturn /\ cur = J_fatal
    /\ entry.total_errors = 1
    /\ last_error = Some(<<"JSON: ", "oom">>)

\* C5 as stated: a structured line without a recognized severity is never
\* an alert, whatever patterns match it.
C5_StructuredNeverAlert ==
    (AtReturn /\ Structured(cur) /\ ~RecognizedSeverity(cur)) => NoAlertRecorded

\* C5, amended: a structured line without a recognized severity is
\* classified by the patterns like any other line: it is an alert with the
\* raw line as message when its lowest-index matching rule is error- or
\* panic-named, and otherwise leaves total_errors and last_error unchanged.
C5_StructuredFallsThrough ==
    (AtReturn /\ Structured(cur) /\ ~RecognizedSeverity(cur)) =>
        IF \E i \in DOMAIN rules : LowestMatch(cur, i) /\ ErrorNamed(i)
        THEN AlertRecorded(cur.text)
        ELSE NoAlertRecorded

\* a level-info record matching the Error rule has been recorded as an alert
C5_Witness ==
    /\ AtReturn /\ cur = J_info /\ rules = RulesDefault
    /\ total_errors = entry.total_errors + 1
    /\ last_error = Some(J_info.text)

\* C6: a line the JSON branch does not take, whose lowest-index matching
\* rule is error- or panic-named, adds exactly 1 to total_errors and sets
\* last_error to the raw line, on its first occurrence and whatever the
\* rule's threshold.
C6_PatternAlert ==
    (AtReturn /\ ~RecognizedSeverity(cur)) =>
        \A i \in DOMAIN rules :
            (LowestMatch(cur, i) /\ ErrorNamed(i)) => AlertRecorded(cur.text)

\* the first line of the run matches a rule of threshold 3 and is counted
C6_Witness ==
    /\ AtReturn /\ cur = L_disk /\ rules = RulesInfoFirst
    /\ rules[2].threshold = 3
    /\ entry.total_lines = 0 /\ total_errors = 1

\* C7: when several rules match, the lowest-index matching rule alone
\* decides: the line is counted iff that rule is error- or panic-named.
C7_FirstRuleDecides ==
    (AtReturn /\ ~RecognizedSeverity(cur) /\ Cardinality(Matching(cur)) >= 2) =>
        \A i \in DOMAIN rules :
            LowestMatch(cur, i) =>
                total_errors = entry.total_errors + (IF ErrorNamed(i) THEN 1 ELSE 0)

\* Info (index 1) and TestError (index 2) both match; no alert is counted
C7_Witness ==
    /\ AtReturn /\ cur = L_inforate /\ rules = RulesInfoFirst
    /\ Matching(cur) = {1, 2}
    /\ total_errors = entry.total_errors

\* C8: a line that is neither a structured line with a recognized severity
\* nor matched by an error- or panic-named rule leaves total_errors,
\* last_error and last_webhook_sent unchanged and spawns nothing.
C8_NonAlertFrame ==
    (AtReturn /\ ~RecognizedSeverity(cur)
              /\ \A i \in Matching(cur) : ~ErrorNamed(i)) =>
        /\ NoAlertRecorded
        /\ last_webhook_sent = entry.last_webhook_sent
        /\ Len(tasks) = entry.tasks

\* with no rules, a plain ERROR line after a dispatched alert changes nothing
C8_Witness ==
    /\ AtReturn /\ cur = L_disk /\ rules = RulesEmpty
    /\ entry.total_errors = 1 /\ entry.tasks = 1
    /\ total_lines = 2

\* C9: between lines, last_error is the message of the most recent line
\* that was an alert, and None when no line was.
C9_LatestAlert ==
    tail_pc = "next_line" =>
        last_error = IF latest = None THEN None
                     ELSE Some(AlertMessage(rules, latest[1]))

\* an alert, then a later different alert, then a non-alert line
C9_Witness ==
    /\ tail_pc = "next_line" /\ completed = 3 /\ total_errors = 2
    /\ latest = Some(L_kernel)
    /\ last_error = Some(L_kernel.text)

\* the tail task is over: its loop ended or one of its expect()s panicked
TailStopped == tail_pc \in {"finished", "panicked"}

\* C10: when the tail source ends or fails, or cannot be initialised, the
\* failure reaches the process: the dashboard loop does not go into another
\* iteration over a pipeline that no longer consumes lines.
C10_SourceFailureIsFatal ==
    [][TailStopped => ~(ui_pc = "poll" /\ ui_pc' = "load_lines")]_vars

\* a pattern of the configuration is not a regular expression
BadPattern == \E i \in DOMAIN rules : rules[i].pattern = "[unclosed"

\* C11: when a rule pattern is not a valid regular expression, building
\* the matcher fails in main before the tail task is spawned: main never
\* reaches the dashboard, the tail task never exists, no line is delivered
\* and total_lines, total_errors and last_error keep their initial values.
C11_BadPatternStopsStartup ==
    BadPattern =>
        /\ main_pc \in {"new_parser", "panicked"}
        /\ tail_pc = "unspawned"
        /\ cur = NoLine /\ completed = 0
        /\ total_lines = 0 /\ total_errors = 0 /\ last_error = None

\* LogParser::new has panicked on the bad pattern
C11_Witness == BadPattern /\ main_pc = "panicked" /\ log_lines # {}

\* the line starts like a structured record and does not parse as one
Malformed(l) == l.first = "{" /\ ~l.json.ok

\* C12: a line that starts with '{' and does not parse as a structured
\* record is not an error of the pipeline: the call returns, and it has
\* treated the line as free text, recording the raw line as an alert
\* exactly when the lowest-index matching rule is error-named and
\* recording nothing otherwise.
C12_MalformedIsFreeText ==
    (AtReturn /\ Malformed(cur)) =>
        IF \E i \in DOMAIN rules : LowestMatch(cur, i) /\ ErrorNamed(i)
        THEN AlertRecorded(cur.text)
        ELSE NoAlertRecorded

\* the malformed record of the catalogue was recorded by the Error rule
C12_Witness ==
    /\ AtReturn /\ Malformed(cur) /\ rules = RulesDefault
    /\ total_errors = entry.total_errors + 1
    /\ last_error = Some(cur.text)

\* the step ends the send() of a webhook task, one way or the other
DispatchEnds ==
    \E i \in DOMAIN tasks :
        /\ i \in DOMAIN tasks'
        /\ tasks[i].st = "sending" /\ tasks'[i].st # "sending"

\* the cooldown taken for the task at index i is still taken: the time
\* the gate holds is no older than the one stored for the task, and the
\* time stored for every later task is more than the cooldown later
CooldownKept(ts, last_sent, i) ==
    /\ last_sent # None /\ last_sent[1] >= ts[i].at
    /\ \A j \in DOMAIN ts : j > i => ts[j].at - ts[i].at > CooldownSecs

\* C13: a step in which a webhook task's send() ends, with success or with
\* failure, changes none of total_lines, total_errors, last_error and
\* last_webhook_sent and spawns nothing (a task that never ends takes no
\* step at all); and after a failure nothing is sent again for it: the
\* cooldown the failed task took stays taken.
C13_DispatchChangesNothing ==
    [][/\ DispatchEnds =>
            /\ UNCHANGED << total_lines, total_errors, last_error,
                            last_webhook_sent >>
            /\ Len(tasks') = Len(tasks)
       /\ \A i \in DOMAIN tasks' :
            tasks'[i].st = "failed" =>
                CooldownKept(tasks', last_webhook_sent', i)]_vars

\* main has returned; the only webhook task has failed and the alert of a
\* later line, inside the cooldown, was refused by the gate
C13_Witness ==
    /\ main_pc = "exited"
    /\ AtReturn /\ Len(tasks) = 1 /\ tasks[1].st = "failed"
    /\ total_errors = entry.total_errors + 1 /\ total_errors >= 2
    /\ ~send /\ now - tasks[1].at <= CooldownSecs
    /\ last_webhook_sent = Some(tasks[1].at)

\* the tail task is inside a call of process_line
InCall ==
    tail_pc \in {"increment_lines", "record_error", "last_error_lock",
                 "last_error_write", "last_error_unlock", "webhook_lock",
                 "should_send", "store_sent", "webhook_unlock", "spawn",
                 "return"}

\* a webhook task has not finished its send()
InFlight(i) == i \in DOMAIN tasks /\ tasks[i].st = "sending"

\* the tail task is inside record_error, in lock(), and the mutex is held
TailWaits == InProcess /\ tail_pc = "last_error_lock" /\ last_error_lock # Free

\* C14: the pipeline never waits for a webhook task, while main is in
\* run_app, in its cleanup or has returned.  While tasks spawned earlier
\* are still in flight, a call of process_line in progress can take its
\* next step, unless it is in record_error's lock() and the mutex is held
\* (by the dashboard, the only other party that locks it), and the tail
\* loop can hand any next line of the log to process_line; and every call
\* of process_line goes on until it returns to the tail loop or comes to
\* wait for that mutex, also in the runs in which no task in flight ever
\* completes.
C14_PipelineNeverWaits ==
    /\ []((\E i \in DOMAIN tasks : InFlight(i)) =>
            /\ InCall => (ENABLED ProcessLine \/ TailWaits)
            /\ (tail_pc = "next_line" /\ completed < MaxLines) =>
                    \A l \in log_lines : ENABLED NextLine(l))
    /\ InCall ~> (tail_pc = "next_line" \/ TailWaits)

\* main has returned and three lines have been processed to the end while
\* both webhook tasks, the first spawned by the first alert, are still in
\* flight
C14_Witness ==
    /\ main_pc = "exited"
    /\ tail_pc = "next_line" /\ completed = 3
    /\ Len(tasks) = 2 /\ InFlight(1) /\ InFlight(2)

\* the dashboard is in lock() and the mutex is held
DashWaits == InRunApp /\ ui_pc = "last_error_lock" /\ last_error_lock # Free

\* C15 as stated: the dashboard and the pipeline never block each other:
\* the tail task never waits in record_error for the last_error mutex while
\* the dashboard holds it, nor the dashboard while the tail task holds it.
C15_NeverBlocked ==
    /\ ~(TailWaits /\ last_error_lock = HeldBy("dashboard"))
    /\ ~(DashWaits /\ last_error_lock = HeldBy("tail"))

\* C15, amended: the dashboard and the pipeline block each other only on
\* the last_error mutex and only for the holder's short critical section:
\* when the tail task waits, the dashboard holds the mutex, is reading
\* last_error or about to drop the guard, and can take its next step; when
\* the dashboard waits, the tail task holds the mutex, is writing
\* last_error or about to drop the guard, and can take its next step; and
\* the tail task never finds the last_webhook_sent mutex held.
C15_BlockedOnlyBriefly ==
    /\ TailWaits =>
            /\ last_error_lock = HeldBy("dashboard")
            /\ ui_pc \in {"render_alert", "last_error_unlock"}
            /\ ENABLED Dashboard
    /\ DashWaits =>
            /\ last_error_lock = HeldBy("tail")
            /\ tail_pc \in {"last_error_write", "last_error_unlock"}
            /\ ENABLED ProcessLine
    /\ (InProcess /\ tail_pc = "webhook_lock") => webhook_lock = Free

\* the tail task waits in record_error while the dashboard renders the
\* alert under the guard
C15_Witness ==
    /\ TailWaits /\ last_error_lock = HeldBy("dashboard")
    /\ ui_pc = "render_alert"

\* C16: in every reachable state, however the tail task, the dashboard and
\* the webhook tasks interleave, total_errors is at most total_lines.
C16_AlertsAtMostLines == total_errors <= total_lines

\* every line so far was an alert, the dashboard is in the middle of a
\* frame and a webhook task is in flight
C16_Witness ==
    /\ total_errors = 3 /\ total_lines = 3
    /\ ui_pc = "render_alert" /\ InFlight(1)

\* the draw closure has ended: the frame on the screen is complete
FrameShown == ui_pc = "poll"

\* C17: a frame is not an atomic snapshot of the shared state: the three
\* values are loaded in separate steps, total_lines, then total_errors,
\* then last_error, and the tail task may run in between, so a frame can
\* show more alerts than lines, or alerts and no last alert (both in the
\* frame of C17_Witness).  What a complete frame does guarantee is only
\* this: each counter shown is a value the counter has had, so at most
\* its current value, and a frame without a last alert shows at most the
\* one alert whose message is still being written.
C17_FrameIsTorn ==
    FrameShown =>
        /\ frame.total_lines <= total_lines
        /\ frame.total_errors <= total_errors
        /\ frame.last_err = None => frame.total_errors <= 1
        /\ frame.last_err # None => last_error # None

\* a complete frame that shows one alert, no line and no last alert
C17_Witness ==
    /\ FrameShown
    /\ frame.total_errors > frame.total_lines
    /\ frame.total_errors > 0 /\ frame.last_err = None

\* the tail task is inside should_send_webhook, in lock(), and the mutex
\* is held
TailWaitsGate == InProcess /\ tail_pc = "webhook_lock" /\ webhook_lock # Free

\* C18: nobody ever holds the last_error mutex and the last_webhook_sent
\* mutex at the same time, and the dashboard never takes the second; so
\* there is no deadlock: nobody waits for a mutex it holds itself, and
\* the tail task and the dashboard never wait at the same time.
C18_NoLockNesting ==
    /\ ~(last_error_lock # Free /\ last_error_lock = webhook_lock)
    /\ webhook_lock # HeldBy("dashboard")
    /\ TailWaits => last_error_lock # HeldBy("tail")
    /\ TailWaitsGate => webhook_lock # HeldBy("tail")
    /\ DashWaits => last_error_lock # HeldBy("dashboard")
    /\ ~(DashWaits /\ (TailWaits \/ TailWaitsGate))

\* both mutexes are held, each by another thread: the tail task is inside
\* should_send_webhook while the dashboard renders the alert
C18_Witness ==
    /\ webhook_lock = HeldBy("tail") /\ tail_pc = "should_send"
    /\ last_error_lock = HeldBy("dashboard")

\* an error-named rule matches the text of the line
ErrorRuleMatches(l) == \E i \in Matching(l) : ErrorNamed(i)

\* C19: one call of process_line records at most one alert and calls
\* should_send_webhook at most once; a structured line with a recognized
\* severity whose text an error-named rule matches as well has added
\* exactly 1 to total_errors when the call returns; and so, between
\* lines, total_errors is at most the number of lines processed.
C19_OneAlertPerLine ==
    /\ InCall => /\ total_errors <= entry.total_errors + 1
                 /\ gate_calls <= 1
    /\ (AtReturn /\ RecognizedSeverity(cur) /\ ErrorRuleMatches(cur)) =>
            total_errors = entry.total_errors + 1
    /\ tail_pc = "next_line" => total_errors <= completed

\* {"level": "error", "msg": "db down"} under the default rules, with a
\* webhook: the Error rule matches the text too, and the call returns
\* with one alert recorded and one call of the gate
C19_Witness ==
    /\ AtReturn /\ RecognizedSeverity(cur) /\ ErrorRuleMatches(cur)
    /\ total_errors = entry.total_errors + 1
    /\ gate_calls = 1

\* the tail task is inside should_send_webhook or is spawning a webhook task
InGate ==
    tail_pc \in {"webhook_lock", "should_send", "store_sent",
                 "webhook_unlock", "spawn"}

\* the line is one process_line records an alert for
AlertWorthy(l) ==
    \/ RecognizedSeverity(l)
    \/ \E i \in DOMAIN rules : LowestMatch(l, i) /\ ErrorNamed(i)

\* C20: with no webhook url configured, should_send_webhook is never
\* called: last_webhook_sent stays unset and no webhook task is ever
\* spawned, whatever lines are processed, while an alert-worthy line
\* still adds 1 to total_errors and sets last_error.
C20_NoUrlNoGate ==
    webhook_url = None =>
        /\ ~InGate /\ gate_calls = 0 /\ webhook_lock = Free
        /\ last_webhook_sent = None
        /\ tasks = << >>
        /\ (AtReturn /\ AlertWorthy(cur)) =>
                /\ total_errors = entry.total_errors + 1
                /\ last_error # None

\* without a url, three alerts have been recorded over more than the
\* cooldown and nothing was sent
C20_Witness ==
    /\ webhook_url = None /\ tail_pc = "next_line"
    /\ completed = 3 /\ total_errors = 3 /\ last_error # None
    /\ now > CooldownSecs
    /\ last_webhook_sent = None /\ tasks = << >>

====
